---------------------------- MODULE Spec2Model ----------------------------
(***************************************************************************)
(* Model of pandare's architecture layer (panda/python/core/pandare/       *)
(* arch.py): the PandaArch base class and its six variants ArmArch,        *)
(* Aarch64Arch, MipsArch, Mips64Arch, X86Arch and X86_64Arch.              *)
(*                                                                         *)
(* The guest register file, the engine's PC storage and guest memory are   *)
(* the state; every public method is one action.  Each method is an        *)
(* operator over a "world" (register file, pc, access log) that returns    *)
(* the world after the call, the returned value and the exception raised.  *)
(* Register names are sequences of characters, so that str.upper(),        *)
(* str.startswith() and int() are computed and not assumed.                *)
(***************************************************************************)
EXTENDS Integers, Sequences, FiniteSets, TLC

(***************************************************************************)
(* Bounds of the model.                                                    *)
(***************************************************************************)
\* Width, in bits, of the model's words on the 32-bit variants (scaled down:
\* TLC's integers cannot hold 2^32).
NarrowBits == 4

\* Width, in bits, of the model's words on the 64-bit variants (scaled down).
WideBits == 5

\* Calls made in one behaviour.
MaxOps == 2

(***************************************************************************)
(* Text: str.upper(), str.startswith(), str.split(), int(), format().      *)
(***************************************************************************)
LowerLetters ==
  << "a","b","c","d","e","f","g","h","i","j","k","l","m",
     "n","o","p","q","r","s","t","u","v","w","x","y","z" >>

UpperLetters ==
  << "A","B","C","D","E","F","G","H","I","J","K","L","M",
     "N","O","P","Q","R","S","T","U","V","W","X","Y","Z" >>

Digits == << "0","1","2","3","4","5","6","7","8","9" >>

\* str.upper() of one character: a lower-case letter becomes its upper-case
\* letter, every other character is kept.
UpperChar(c) ==
  IF \E i \in 1..26 : LowerLetters[i] = c
    THEN UpperLetters[CHOOSE i \in 1..26 : LowerLetters[i] = c]
    ELSE c

\* str.lower() of one character.
LowerChar(c) ==
  IF \E i \in 1..26 : UpperLetters[i] = c
    THEN LowerLetters[CHOOSE i \in 1..26 : UpperLetters[i] = c]
    ELSE c

\* str.upper()
Upper(s) == [i \in 1..Len(s) |-> UpperChar(s[i])]

\* str.lower()
Lower(s) == [i \in 1..Len(s) |-> LowerChar(s[i])]

\* The Python string a character sequence spells (a dictionary key).
RECURSIVE Join(_)
Join(s) == IF s = <<>> THEN "" ELSE Head(s) \o Join(Tail(s))

\* "{x}".format(x): the decimal digits of a natural number.
RECURSIVE DecChars(_)
DecChars(n) ==
  IF n < 10 THEN << Digits[n + 1] >>
  ELSE DecChars(n \div 10) \o << Digits[(n % 10) + 1] >>

\* int(s) of a string of decimal digits.
RECURSIVE ParseInt(_)
ParseInt(s) ==
  IF s = <<>> THEN 0
  ELSE 10 * ParseInt(SubSeq(s, 1, Len(s) - 1))
         + ((CHOOSE d \in 1..10 : Digits[d] = s[Len(s)]) - 1)

StackPrefix == << "s","t","a","c","k","_" >>

\* PandaArch._is_stack_loc: argloc.startswith("stack_")
IsStackLoc(argloc) ==
  /\ Len(argloc) >= Len(StackPrefix)
  /\ SubSeq(argloc, 1, Len(StackPrefix)) = StackPrefix

\* int(argloc.split("stack_")[1]) of PandaArch._read_stack
StackIdx(argloc) == ParseInt(SubSeq(argloc, Len(StackPrefix) + 1, Len(argloc)))

(***************************************************************************)
(* The architecture profiles built by the constructors.                    *)
(***************************************************************************)
\* panda.arch_name of the six variants.
Archs == { "arm", "aarch64", "mips", "mips64", "i386", "x86_64" }

MipsFamily == { "mips", "mips64" }

ArmRegnames ==
  <<
    <<"R","0">>, <<"R","1">>, <<"R","2">>, <<"R","3">>, <<"R","4">>, <<"R","5">>,
    <<"R","6">>, <<"R","7">>, <<"R","8">>, <<"R","9">>, <<"R","1","0">>, <<"R","1","1">>,
    <<"R","1","2">>, <<"S","P">>, <<"L","R">>, <<"I","P">> >>

Aarch64Regnames ==
  <<
    <<"X","0">>, <<"X","1">>, <<"X","2">>, <<"X","3">>, <<"X","4">>, <<"X","5">>,
    <<"X","6">>, <<"X","7">>, <<"X","R">>, <<"X","9">>, <<"X","1","0">>, <<"X","1","1">>,
    <<"X","1","2">>, <<"X","1","3">>, <<"X","1","4">>, <<"X","1","5">>, <<"I","P","0">>,
    <<"I","P","1">>, <<"P","R">>, <<"X","1","9">>, <<"X","2","0">>, <<"X","2","1">>,
    <<"X","2","2">>, <<"X","2","3">>, <<"X","2","4">>, <<"X","2","5">>, <<"X","2","6">>,
    <<"X","2","7">>, <<"X","2","7">>, <<"X","2","8">>, <<"F","P">>, <<"L","R">>,
    <<"S","P">> >>

MipsRegnames ==
  <<
    <<"z","e","r","o">>, <<"a","t">>, <<"v","0">>, <<"v","1">>, <<"a","0">>, <<"a","1">>,
    <<"a","2">>, <<"a","3">>, <<"t","0">>, <<"t","1">>, <<"t","2">>, <<"t","3">>,
    <<"t","4">>, <<"t","5">>, <<"t","6">>, <<"t","7">>, <<"s","0">>, <<"s","1">>,
    <<"s","2">>, <<"s","3">>, <<"s","4">>, <<"s","5">>, <<"s","6">>, <<"s","7">>,
    <<"t","8">>, <<"t","9">>, <<"k","0">>, <<"k","1">>, <<"g","p">>, <<"s","p">>,
    <<"f","p">>, <<"r","a">> >>

Mips64Regnames ==
  <<
    <<"z","e","r","o">>, <<"a","t">>, <<"v","0">>, <<"v","1">>, <<"a","0">>, <<"a","1">>,
    <<"a","2">>, <<"a","3">>, <<"a","4">>, <<"a","5">>, <<"a","6">>, <<"a","7">>,
    <<"t","0">>, <<"t","1">>, <<"t","2">>, <<"t","3">>, <<"s","0">>, <<"s","1">>,
    <<"s","2">>, <<"s","3">>, <<"s","4">>, <<"s","5">>, <<"s","6">>, <<"s","7">>,
    <<"t","8">>, <<"t","9">>, <<"k","0">>, <<"k","1">>, <<"g","p">>, <<"s","p">>,
    <<"s","8">>, <<"r","a">> >>

X86Regnames ==
  <<
    <<"E","A","X">>, <<"E","C","X">>, <<"E","D","X">>, <<"E","B","X">>, <<"E","S","P">>,
    <<"E","B","P">>, <<"E","S","I">>, <<"E","D","I">> >>

X86_64Regnames ==
  <<
    <<"R","A","X">>, <<"R","C","X">>, <<"R","D","X">>, <<"R","B","X">>, <<"R","S","P">>,
    <<"R","B","P">>, <<"R","S","I">>, <<"R","D","I">>, <<"R","8">>, <<"R","9">>,
    <<"R","1","0">>, <<"R","1","1">>, <<"R","1","2">>, <<"R","1","3">>, <<"R","1","4">>,
    <<"R","1","5">> >>

\* The regnames list of each constructor.
Regnames(a) ==
  CASE a = "arm"     -> ArmRegnames
    [] a = "aarch64" -> Aarch64Regnames
    [] a = "mips"    -> MipsRegnames
    [] a = "mips64"  -> Mips64Regnames
    [] a = "i386"    -> X86Regnames
    [] a = "x86_64"  -> X86_64Regnames

\* regnames.index(name): the first position holding the name (0-based).
RegnamesIndex(a, name) ==
  (CHOOSE i \in 1..Len(Regnames(a)) :
     /\ Regnames(a)[i] = name
     /\ \A j \in 1..(i - 1) : Regnames(a)[j] # name) - 1

\* The key under which regnames[idx] is stored in self.registers: the MIPS
\* constructors store regnames[idx].upper(), the others regnames[idx].
RegKey(a, idx) ==
  IF a \in MipsFamily THEN Join(Upper(Regnames(a)[idx + 1]))
  ELSE Join(Regnames(a)[idx + 1])

\* A table whose keys are the names as the regnames list spells them, on
\* the MIPS variants too.
BuildRegistersAsListed(a) ==
  LET n    == Len(Regnames(a))
      keys == { Join(Regnames(a)[i + 1]) : i \in 0..(n - 1) }
  IN  [ k \in keys |->
          CHOOSE i \in 0..(n - 1) :
            /\ Join(Regnames(a)[i + 1]) = k
            /\ \A j \in 0..(n - 1) : Join(Regnames(a)[j + 1]) = k => j <= i ]

\* self.registers = {regnames[idx]: idx for idx in range(len(regnames))}:
\* a key listed twice keeps the last index written.
BuildRegisters(a) ==
  LET n    == Len(Regnames(a))
      keys == { RegKey(a, i) : i \in 0..(n - 1) }
  IN  [ k \in keys |->
          CHOOSE i \in 0..(n - 1) :
            /\ RegKey(a, i) = k
            /\ \A j \in 0..(n - 1) : RegKey(a, j) = k => j <= i ]

\* self.registers of every variant.
Registers == [ a \in Archs |-> BuildRegisters(a) ]

\* self.reg_sp
RegSp(a) ==
  CASE a = "arm"     -> RegnamesIndex(a, << "S","P" >>)
    [] a = "aarch64" -> RegnamesIndex(a, << "S","P" >>)
    [] a = "mips"    -> RegnamesIndex(a, << "s","p" >>)
    [] a = "mips64"  -> RegnamesIndex(a, << "s","p" >>)
    [] a = "i386"    -> RegnamesIndex(a, << "E","S","P" >>)
    [] a = "x86_64"  -> RegnamesIndex(a, << "R","S","P" >>)

\* self.reg_pc: only ArmArch sets it; -1 stands for None.
RegPc(a) == IF a = "arm" THEN RegnamesIndex(a, << "I","P" >>) ELSE -1

\* X86Arch: ["stack_{x}" for x in range(20)]
CdeclSlots == 20

X86Cdecl == [ x \in 1..CdeclSlots |-> StackPrefix \o DecChars(x - 1) ]

ArmConventions ==
  "arm32" :> <<
      <<"R","0">>, <<"R","1">>, <<"R","2">>, <<"R","3">> >>
  @@
  "syscall" :> <<
      <<"R","7">>, <<"R","0">>, <<"R","1">>, <<"R","2">>, <<"R","3">>, <<"R","4">>,
      <<"R","5">> >>

Aarch64Conventions ==
  "arm64" :> <<
      <<"X","0">>, <<"X","1">>, <<"X","2">>, <<"X","3">>, <<"X","4">>, <<"X","5">>,
      <<"X","6">>, <<"X","7">> >>
  @@
  "syscall" :> <<
      <<"X","R">>, <<"X","0">>, <<"X","1">>, <<"X","2">>, <<"X","3">>, <<"X","4">>,
      <<"X","5">>, <<"X","6">>, <<"X","7">> >>

MipsConventions ==
  "mips" :> <<
      <<"A","0">>, <<"A","1">>, <<"A","2">>, <<"A","3">> >>
  @@
  "syscall" :> <<
      <<"V","0">>, <<"A","0">>, <<"A","1">>, <<"A","2">>, <<"A","3">>,
      <<"s","t","a","c","k","_","1">>, <<"s","t","a","c","k","_","2">>,
      <<"s","t","a","c","k","_","3">>, <<"s","t","a","c","k","_","4">> >>

Mips64Conventions ==
  "mips" :> <<
      <<"A","0">>, <<"A","1">>, <<"A","2">>, <<"A","3">> >>
  @@
  "syscall" :> <<
      <<"V","0">>, <<"A","0">>, <<"A","1">>, <<"A","2">>, <<"A","3">>, <<"A","4">>,
      <<"A","5">> >>

X86_64Conventions ==
  "sysv" :> <<
      <<"R","D","I">>, <<"R","S","I">>, <<"R","D","X">>, <<"R","C","X">>, <<"R","8">>,
      <<"R","9">> >>
  @@
  "syscall" :> <<
      <<"R","A","X">>, <<"R","D","I">>, <<"R","S","I">>, <<"R","D","X">>, <<"R","1","0">>,
      <<"R","8">>, <<"R","9">> >>

X86Conventions ==
  "cdecl" :> X86Cdecl
  @@
  "syscall" :> <<
      <<"E","A","X">>, <<"E","B","X">>, <<"E","C","X">>, <<"E","D","X">>, <<"E","S","I">>,
      <<"E","D","I">>, <<"E","B","P">> >>

\* self.call_conventions, with the 'default' alias each constructor adds.
BuildConventions(a) ==
  CASE a = "arm"     -> ArmConventions     @@ ("default" :> ArmConventions["arm32"])
    [] a = "aarch64" -> Aarch64Conventions @@ ("default" :> Aarch64Conventions["arm64"])
    [] a = "mips"    -> MipsConventions    @@ ("default" :> MipsConventions["mips"])
    [] a = "mips64"  -> Mips64Conventions  @@ ("default" :> Mips64Conventions["mips"])
    [] a = "i386"    -> X86Conventions     @@ ("default" :> X86Conventions["cdecl"])
    [] a = "x86_64"  -> X86_64Conventions  @@ ("default" :> X86_64Conventions["sysv"])

CallConventions == [ a \in Archs |-> BuildConventions(a) ]

\* self.reg_retval
BuildRegRetval(a) ==
  CASE a = "arm"     -> ("default" :> << "R","0" >>) @@ ("syscall" :> << "R","0" >>)
    [] a = "aarch64" -> ("default" :> << "X","0" >>) @@ ("syscall" :> << "X","0" >>)
    [] a \in MipsFamily -> ("default" :> << "V","0" >>) @@ ("syscall" :> << "V","0" >>)
    [] a = "i386"    -> ("default" :> << "E","A","X" >>) @@ ("syscall" :> << "E","A","X" >>)
    [] a = "x86_64"  -> ("sysv" :> << "R","A","X" >>) @@ ("syscall" :> << "R","A","X" >>)
                          @@ ("default" :> << "R","A","X" >>)

RegRetval == [ a \in Archs |-> BuildRegRetval(a) ]

\* panda.bits, as PandaArch._determine_bits gives it.
PandaBits(a) == IF a \in { "arm", "mips", "i386" } THEN 32 ELSE 64

(***************************************************************************)
(* Machine words.                                                          *)
(***************************************************************************)
RECURSIVE Pow2(_)
Pow2(n) == IF n = 0 THEN 1 ELSE 2 * Pow2(n - 1)

\* The width of the model's words for a variant.
ModelBits(a) == IF PandaBits(a) = 32 THEN NarrowBits ELSE WideBits

WordMod(a) == Pow2(ModelBits(a))

Words(a) == 0..(WordMod(a) - 1)

AllOnes(a) == WordMod(a) - 1

SignBit(a) == Pow2(ModelBits(a) - 1)

\* A store into the engine's fixed-width register storage keeps the low
\* bits of the value (True is stored as 1, a negative number in two's
\* complement).
ToWord(a, val) == val % WordMod(a)

\* panda.from_unsigned_guest: the unsigned guest word read as a signed
\* number; a number below 2^(bits-1), a negative one included, is returned
\* as it is.
FromUnsignedGuest(a, x) == IF x >= SignBit(a) THEN x - WordMod(a) ELSE x

\* Python's int(bool).
BoolInt(b) == IF b THEN 1 ELSE 0

(***************************************************************************)
(* Values of the `reg` parameter: a str, an int, or any other object.      *)
(***************************************************************************)
NameRef(s) == [kind |-> "name", name |-> s, idx |-> 0]

IndexRef(i) == [kind |-> "index", name |-> << >>, idx |-> i]

OtherRef == [kind |-> "other", name |-> << >>, idx |-> 0]

NoRef == [kind |-> "none", name |-> << >>, idx |-> 0]

(***************************************************************************)
(* The world a call acts on: the guest register file, the engine's PC      *)
(* storage, the mapped part of guest memory, and the log of the accesses   *)
(* the call has made (raw: calls of _get_reg_val / _set_reg_val, mr:       *)
(* calls of panda.virtual_memory_read).                                    *)
(***************************************************************************)
RegFile(a) == 0..(Len(Regnames(a)) - 1)

Ret(w, v) == [w |-> w, res |-> v, list |-> << >>, err |-> "none"]

Raise(w, e) == [w |-> w, res |-> 0, list |-> << >>, err |-> e]

\* The contents of guest memory at an address (fixed: nothing here writes
\* guest memory).
MemWord(a, addr) == (3 * addr + 1) % WordMod(a)

\* panda.virtual_memory_read(cpu, addr, size, fmt='int'): the word at addr,
\* or ValueError when the address is not mapped.
VirtualMemoryRead(a, w, addr, size) ==
  LET w1 == [w EXCEPT !.mr = Append(@, [addr |-> addr, size |-> size])]
  IN  IF addr < w.lim THEN Ret(w1, MemWord(a, addr))
      ELSE Raise(w1, "MemoryReadError")

(***************************************************************************)
(* The raw accessors of the variants.                                      *)
(***************************************************************************)
\* _get_reg_val: cpu.env_ptr.regs[reg] (ARM, x86, x86_64), .xregs[reg]
\* (AArch64, where reg == 32 answers 0), .active_tc.gpr[reg] (MIPS).
\* Indexing the storage with an object that is no index of it raises.
GetRegVal(a, w, reg) ==
  LET w1 == [w EXCEPT !.raw = Append(@, [rw |-> "r", reg |-> reg])]
  IN  IF a = "aarch64" /\ reg.kind = "index" /\ reg.idx = 32 THEN Ret(w1, 0)
      ELSE IF reg.kind # "index" \/ reg.idx \notin DOMAIN w.regs
        THEN Raise(w1, "RawAccessFault")
      ELSE Ret(w1, w.regs[reg.idx])

\* A raw store that keeps one bit too few of the value.
SetRegValNarrow(a, w, reg, val) ==
  LET w1 == [w EXCEPT !.raw = Append(@, [rw |-> "w", reg |-> reg])]
  IN  IF reg.kind # "index" \/ reg.idx \notin DOMAIN w.regs
        THEN Raise(w1, "RawAccessFault")
      ELSE Ret([w1 EXCEPT !.regs[reg.idx] = val % SignBit(a)], 0)

\* _set_reg_val: cpu.env_ptr.regs[reg] = val, .xregs[reg] = val,
\* .active_tc.gpr[reg] = val.
SetRegVal(a, w, reg, val) ==
  LET w1 == [w EXCEPT !.raw = Append(@, [rw |-> "w", reg |-> reg])]
  IN  IF reg.kind # "index" \/ reg.idx \notin DOMAIN w.regs
        THEN Raise(w1, "RawAccessFault")
      ELSE Ret([w1 EXCEPT !.regs[reg.idx] = ToWord(a, val)], 0)

(***************************************************************************)
(* PandaArch: registers.                                                   *)
(***************************************************************************)
\* A get_reg that looks the name up as it is spelled, without reg.upper().
GetRegNoUpper(a, w, reg) ==
  IF reg.kind = "name"
    THEN LET key == Join(reg.name)
         IN  IF key \notin DOMAIN Registers[a]
               THEN Raise(w, "UnknownRegister")
             ELSE GetRegVal(a, w, IndexRef(Registers[a][key]))
  ELSE GetRegVal(a, w, reg)

\* PandaArch.get_reg
GetReg(a, w, reg) ==
  IF reg.kind = "name"
    THEN LET key == Join(Upper(reg.name))
         IN  IF key \notin DOMAIN Registers[a]
               THEN Raise(w, "UnknownRegister")
             ELSE GetRegVal(a, w, IndexRef(Registers[a][key]))
  ELSE GetRegVal(a, w, reg)

\* PandaArch.set_reg
SetReg(a, w, reg, val) ==
  IF reg.kind = "name"
    THEN LET key == Join(Upper(reg.name))
         IN  IF key \notin DOMAIN Registers[a]
               THEN Raise(w, "UnknownRegister")
             ELSE SetRegVal(a, w, IndexRef(Registers[a][key]), val)
  ELSE IF reg.kind # "index"
    THEN Raise(w, "InvalidRegisterReference")
  ELSE SetRegVal(a, w, reg, val)

(***************************************************************************)
(* PandaArch: program counter.                                             *)
(***************************************************************************)
\* `if self.reg_pc:` - None and 0 are false.
PcInRegister(a) == RegPc(a) > 0

\* PandaArch.get_pc
BaseGetPc(a, w) ==
  IF PcInRegister(a) THEN GetReg(a, w, IndexRef(RegPc(a)))
  ELSE Raise(w, "UnsupportedOperation")

\* PandaArch.set_pc
BaseSetPc(a, w, val) ==
  IF PcInRegister(a) THEN SetReg(a, w, IndexRef(RegPc(a)), val)
  ELSE Raise(w, "UnsupportedOperation")

\* The variants that define get_pc and set_pc of their own: Aarch64Arch,
\* MipsArch (and Mips64Arch, which inherits them), X86Arch and X86_64Arch.
OverridesPc(a) == a \in { "aarch64", "mips", "mips64", "i386", "x86_64" }

\* get_pc as the variant dispatches it: env_ptr.pc (AArch64), active_tc.PC
\* (MIPS), env_ptr.eip (x86, x86_64), the base method on ARM.
GetPc(a, w) ==
  IF OverridesPc(a) THEN Ret(w, w.pc)
  ELSE BaseGetPc(a, w)

\* A set_pc whose override also stores the value into register 0.
SetPcClobber(a, w, val) ==
  IF OverridesPc(a)
    THEN Ret([w EXCEPT !.pc = ToWord(a, val), !.regs[0] = ToWord(a, val)], 0)
  ELSE BaseSetPc(a, w, val)

\* set_pc as the variant dispatches it.
SetPc(a, w, val) ==
  IF OverridesPc(a) THEN Ret([w EXCEPT !.pc = ToWord(a, val)], 0)
  ELSE BaseSetPc(a, w, val)

(***************************************************************************)
(* PandaArch: arguments.                                                   *)
(***************************************************************************)
\* A _get_arg_loc that answers the last location for an index past the
\* end of the list.
GetArgLocClamp(a, idx, convention) ==
  IF convention \in DOMAIN CallConventions[a]
    THEN LET locs == CallConventions[a][convention]
         IN  IF idx >= 0
               THEN [loc |-> locs[IF idx < Len(locs) THEN idx + 1 ELSE Len(locs)],
                     err |-> "none"]
             ELSE IF idx >= -Len(locs)
               THEN [loc |-> locs[Len(locs) + idx + 1], err |-> "none"]
             ELSE [loc |-> << >>, err |-> "IndexError"]
  ELSE [loc |-> << >>, err |-> "UnsupportedConvention"]

\* PandaArch._get_arg_loc.  The list is indexed as Python indexes it: a
\* negative idx passes the test idx < len and counts from the end of the
\* list, and raises IndexError below -len.
GetArgLoc(a, idx, convention) ==
  IF convention \in DOMAIN CallConventions[a]
    THEN LET locs == CallConventions[a][convention]
         IN  IF idx < Len(locs)
               THEN IF idx >= 0
                      THEN [loc |-> locs[idx + 1], err |-> "none"]
                    ELSE IF idx >= -Len(locs)
                      THEN [loc |-> locs[Len(locs) + idx + 1], err |-> "none"]
                    ELSE [loc |-> << >>, err |-> "IndexError"]
             ELSE [loc |-> << >>, err |-> "ArgumentIndexOutOfRange"]
  ELSE [loc |-> << >>, err |-> "UnsupportedConvention"]

\* A _read_stack that takes slot n at offset arg_sz * n, not skipping the
\* word at the stack pointer.
ReadStackNoSkip(a, w, argloc) ==
  LET stack_idx  == StackIdx(argloc)
      stack_base == GetReg(a, w, IndexRef(RegSp(a)))
      arg_sz     == PandaBits(a) \div 8
      offset     == arg_sz * stack_idx
  IN  IF stack_base.err # "none" THEN stack_base
      ELSE VirtualMemoryRead(a, stack_base.w, stack_base.res + offset, arg_sz)

\* PandaArch._read_stack
ReadStack(a, w, argloc) ==
  LET stack_idx  == StackIdx(argloc)
      stack_base == GetReg(a, w, IndexRef(RegSp(a)))
      arg_sz     == PandaBits(a) \div 8
      offset     == arg_sz * (stack_idx + 1)
  IN  IF stack_base.err # "none" THEN stack_base
      ELSE VirtualMemoryRead(a, stack_base.w, stack_base.res + offset, arg_sz)

\* PandaArch.set_arg
SetArg(a, w, idx, val, convention) ==
  LET reg == GetArgLoc(a, idx, convention)
  IN  IF reg.err # "none" THEN Raise(w, reg.err)
      ELSE SetReg(a, w, NameRef(reg.loc), val)

\* PandaArch.get_arg
GetArg(a, w, idx, convention) ==
  LET argloc == GetArgLoc(a, idx, convention)
  IN  IF argloc.err # "none" THEN Raise(w, argloc.err)
      ELSE IF IsStackLoc(argloc.loc) THEN ReadStack(a, w, argloc.loc)
      ELSE GetReg(a, w, NameRef(argloc.loc))

\* PandaArch.get_args: [self.get_arg(cpu, i, convention) for i in range(num)],
\* the arguments num - k .. num - 1 read after the list `got`.
RECURSIVE GetArgsFrom(_, _, _, _, _, _)
GetArgsFrom(a, w, i, num, convention, got) ==
  IF i >= num THEN [Ret(w, 0) EXCEPT !.list = got]
  ELSE LET r == GetArg(a, w, i, convention)
       IN  IF r.err # "none" THEN Raise(r.w, r.err)
           ELSE GetArgsFrom(a, r.w, i + 1, num, convention, Append(got, r.res))

GetArgs(a, w, num, convention) == GetArgsFrom(a, w, 0, num, convention, << >>)

(***************************************************************************)
(* Return values.                                                          *)
(***************************************************************************)
\* PandaArch._get_ret_val_reg
GetRetValReg(a, convention) ==
  IF convention \in DOMAIN RegRetval[a]
    THEN [reg |-> RegRetval[a][convention], err |-> "none"]
  ELSE [reg |-> << >>, err |-> "UnsupportedConvention"]

\* PandaArch.set_retval (the failure argument is not used here)
BaseSetRetval(a, w, val, convention) ==
  LET reg == GetRetValReg(a, convention)
  IN  IF reg.err # "none" THEN Raise(w, reg.err)
      ELSE SetReg(a, w, NameRef(reg.reg), val)

\* A get_retval that returns the raw word for every convention.
BaseGetRetvalRaw(a, w, convention) ==
  LET reg == GetRetValReg(a, convention)
  IN  IF reg.err # "none" THEN Raise(w, reg.err)
      ELSE GetReg(a, w, NameRef(reg.reg))

\* PandaArch.get_retval
BaseGetRetval(a, w, convention) ==
  LET reg == GetRetValReg(a, convention)
  IN  IF reg.err # "none" THEN Raise(w, reg.err)
      ELSE LET rv == GetReg(a, w, NameRef(reg.reg))
           IN  IF rv.err # "none" THEN rv
               ELSE IF convention = "syscall"
                 THEN Ret(rv.w, FromUnsignedGuest(a, rv.res))
               ELSE rv

\* MipsArch.get_retval: the flip is taken when A3 == 1, and the base method
\* is called as super().get_retval(cpu), that is with convention 'default'.
MipsGetRetval(a, w, convention) ==
  LET a3   == IF convention = "syscall"
                THEN GetReg(a, w, NameRef(<< "A","3" >>))
              ELSE Ret(w, 0)
      flip == IF convention = "syscall" /\ a3.res = 1 THEN -1 ELSE 1
  IN  IF a3.err # "none" THEN a3
      ELSE LET rv == BaseGetRetval(a, a3.w, "default")
           IN  IF rv.err # "none" THEN rv
               ELSE Ret(rv.w, flip * rv.res)

\* A MIPS set_retval that stores a negative value as it is.
MipsSetRetvalNoAbs(a, w, val, convention, failure) ==
  IF convention = "syscall"
    THEN LET a3 == SetReg(a, w, NameRef(<< "a","3" >>), BoolInt(failure))
         IN  IF a3.err # "none" THEN a3
             ELSE BaseSetRetval(a, a3.w, val, convention)
  ELSE BaseSetRetval(a, w, val, convention)

\* MipsArch.set_retval
MipsSetRetval(a, w, val, convention, failure) ==
  IF convention = "syscall"
    THEN LET a3  == SetReg(a, w, NameRef(<< "a","3" >>), BoolInt(failure))
             neg == failure /\ FromUnsignedGuest(a, val) < 0
             v   == IF neg THEN (-1) * FromUnsignedGuest(a, val) ELSE val
         IN  IF a3.err # "none" THEN a3
             ELSE BaseSetRetval(a, a3.w, v, convention)
  ELSE BaseSetRetval(a, w, val, convention)

\* A get_retval in which Mips64Arch takes the base method, not MipsArch's.
GetRetvalMips32Only(a, w, convention) ==
  IF a = "mips" THEN MipsGetRetval(a, w, convention)
  ELSE BaseGetRetval(a, w, convention)

\* get_retval of the variant: Mips64Arch inherits MipsArch's.
GetRetval(a, w, convention) ==
  IF a \in MipsFamily THEN MipsGetRetval(a, w, convention)
  ELSE BaseGetRetval(a, w, convention)

\* set_retval of the variant.
SetRetval(a, w, val, convention, failure) ==
  IF a \in MipsFamily THEN MipsSetRetval(a, w, val, convention, failure)
  ELSE BaseSetRetval(a, w, val, convention)

(***************************************************************************)
(* State.                                                                  *)
(***************************************************************************)
VARIABLES
  arch,   \* panda.arch_name: the variant in use, fixed for the session
  regs,   \* the guest register file: index -> word
  pc,     \* the engine's PC storage (not used by ArmArch)
  lim,    \* guest memory is mapped below this address
  subject, \* what the caller's calls are about: a register, a convention
          \* and an argument position
  last,   \* the last call: its arguments, its result, what it accessed
  prev,   \* the call before it
  nops    \* calls made so far

vars == << arch, regs, pc, lim, subject, last, prev, nops >>

World == [regs |-> regs, pc |-> pc, lim |-> lim, raw |-> << >>, mr |-> << >>]

NoCall ==
  [op |-> "none", reg |-> NoRef, idx |-> 0, conv |-> "", val |-> 0,
   failure |-> FALSE, res |-> 0, list |-> << >>, err |-> "none",
   raw |-> << >>, mr |-> << >>, regs0 |-> << >>, pc0 |-> 0]

\* The record of a call with outcome r, made in the current state.
Call(op, reg, idx, conv, val, failure, r) ==
  [op |-> op, reg |-> reg, idx |-> idx, conv |-> conv, val |-> val,
   failure |-> failure, res |-> r.res, list |-> r.list, err |-> r.err,
   raw |-> r.w.raw, mr |-> r.w.mr, regs0 |-> regs, pc0 |-> pc]

\* The call returns or raises: the state is what the call left behind.
Finish(c, r) ==
  /\ regs' = r.w.regs
  /\ pc' = r.w.pc
  /\ prev' = last
  /\ last' = c
  /\ nops' = nops + 1
  /\ UNCHANGED << arch, lim, subject >>

(***************************************************************************)
(* Inputs.                                                                 *)
(***************************************************************************)
Bogus == << "b","o","g","u","s" >>

\* Spellings of the name at position p of the regnames list: as the
\* constructor lists it, in upper case and in lower case.
Spellings(a, p) ==
  { Regnames(a)[p], Upper(Regnames(a)[p]), Lower(Regnames(a)[p]) }

\* References to the register at position p of the regnames list: its name
\* in each spelling, its index as an int, an object that is neither, and
\* a name of no table.
RefInputs(a, p) ==
  { NameRef(n) : n \in Spellings(a, p) }
    \cup { IndexRef(p - 1), OtherRef, NameRef(Bogus) }

\* Values written to a register: all-zeros and all-ones.
RegValues(a) == { 0, AllOnes(a) }

\* Return values: words on both sides of the sign bit, and negative numbers.
RetValues(a) ==
  { 5, WordMod(a) - 7, -7, -SignBit(a) }

\* Conventions asked of the argument methods: the defined ones and one
\* that no variant defines.
ConvInputs(a) == DOMAIN CallConventions[a] \cup { "bogus" }

\* Conventions asked of the return-value methods.
RetConvInputs(a) == DOMAIN RegRetval[a] \cup { "bogus" }

\* Argument indices for a convention: the whole list, past its end, and
\* negative ones.
IdxInputs(a, conv) ==
  LET n == IF conv \in DOMAIN CallConventions[a]
             THEN Len(CallConventions[a][conv]) ELSE 1
  IN  (0..n) \cup { -1, -(n + 1) }

\* Argument counts for get_args: none, one, the whole list, one more.
NumInputs(a, conv) ==
  LET n == IF conv \in DOMAIN CallConventions[a]
             THEN Len(CallConventions[a][conv]) ELSE 1
  IN  { 0, 1, n, n + 1 }

(***************************************************************************)
(* Initial states.  The register file belongs to the guest: its contents   *)
(* are whatever the guest left there.                                      *)
(***************************************************************************)
InitCommon ==
  /\ arch \in Archs
  /\ last = NoCall
  /\ prev = NoCall
  /\ nops = 0

\* The calls are about one register, under the default convention.
RegSubject ==
  \E p \in 1..Len(Regnames(arch)) :
    subject = [reg |-> p, conv |-> "default", idx |-> 0]

\* The calls are about one argument position of one convention.
ArgSubject ==
  \E conv \in ConvInputs(arch) :
    \E idx \in IdxInputs(arch, conv) :
      subject = [reg |-> 1, conv |-> conv, idx |-> idx]

\* The calls are about the return value.
RetSubject == subject = [reg |-> 1, conv |-> "default", idx |-> 0]

\* Every register holds 3.
InitReg ==
  /\ InitCommon
  /\ RegSubject
  /\ regs = [i \in RegFile(arch) |-> 3]
  /\ pc = 3
  /\ lim = 0

\* The guest has just returned: a value in the return register, and on
\* MIPS a status in A3 (index 7).
InitRet ==
  /\ InitCommon
  /\ RetSubject
  /\ \E rv \in { 5, AllOnes(arch) } :
     \E st \in IF arch \in MipsFamily THEN { 0, 1, 2 } ELSE { 0 } :
       regs = [i \in RegFile(arch) |->
                 IF i = Registers[arch][Join(Upper(RegRetval[arch]["default"]))]
                   THEN rv
                 ELSE IF i = 7 /\ arch \in MipsFamily THEN st
                 ELSE 0]
  /\ pc = 0
  /\ lim = 0

\* The guest is at a call: every register holds a value of its own, the
\* stack pointer one of two values, and the stack is mapped up to one of
\* two addresses.
InitArg ==
  /\ InitCommon
  /\ ArgSubject
  /\ \E sp \in { 0, 8 } :
       regs = [i \in RegFile(arch) |->
                 IF i = RegSp(arch) THEN sp ELSE (i + 1) % WordMod(arch)]
  /\ pc = 0
  /\ lim \in { 10, 200 }

Init == InitReg \/ InitRet \/ InitArg

(***************************************************************************)
(* Actions: one per public method.                                         *)
(***************************************************************************)
GetRegStep ==
  /\ nops < MaxOps
  /\ \E reg \in RefInputs(arch, subject.reg) :
       LET r == GetReg(arch, World, reg)
       IN  Finish(Call("get_reg", reg, 0, "", 0, FALSE, r), r)

SetRegStep ==
  /\ nops < MaxOps
  /\ \E reg \in RefInputs(arch, subject.reg), val \in RegValues(arch) :
       LET r == SetReg(arch, World, reg, val)
       IN  Finish(Call("set_reg", reg, 0, "", val, FALSE, r), r)

GetPcStep ==
  /\ nops < MaxOps
  /\ LET r == GetPc(arch, World)
     IN  Finish(Call("get_pc", NoRef, 0, "", 0, FALSE, r), r)

SetPcStep ==
  /\ nops < MaxOps
  /\ \E val \in RegValues(arch) :
       LET r == SetPc(arch, World, val)
       IN  Finish(Call("set_pc", NoRef, 0, "", val, FALSE, r), r)

GetArgStep ==
  /\ nops < MaxOps
  /\ LET r == GetArg(arch, World, subject.idx, subject.conv)
     IN  Finish(Call("get_arg", NoRef, subject.idx, subject.conv, 0, FALSE, r), r)

SetArgStep ==
  /\ nops < MaxOps
  /\ \E val \in RegValues(arch) :
       LET r == SetArg(arch, World, subject.idx, val, subject.conv)
       IN  Finish(Call("set_arg", NoRef, subject.idx, subject.conv, val, FALSE, r), r)

GetArgsStep ==
  /\ nops < MaxOps
  /\ \E num \in NumInputs(arch, subject.conv) :
       LET r == GetArgs(arch, World, num, subject.conv)
       IN  Finish(Call("get_args", NoRef, num, subject.conv, 0, FALSE, r), r)

GetRetvalStep ==
  /\ nops < MaxOps
  /\ \E conv \in RetConvInputs(arch) :
       LET r == GetRetval(arch, World, conv)
       IN  Finish(Call("get_retval", NoRef, 0, conv, 0, FALSE, r), r)

SetRetvalStep ==
  /\ nops < MaxOps
  /\ \E conv \in RetConvInputs(arch), val \in RetValues(arch), failure \in BOOLEAN :
       LET r == SetRetval(arch, World, val, conv, failure)
       IN  Finish(Call("set_retval", NoRef, 0, conv, val, failure, r), r)

Next ==
  \/ GetRegStep
  \/ SetRegStep
  \/ GetPcStep
  \/ SetPcStep
  \/ GetArgStep
  \/ SetArgStep
  \/ GetArgsStep
  \/ GetRetvalStep
  \/ SetRetvalStep

Spec == Init /\ [][Next]_vars

\* Register access alone.
NextReg == GetRegStep \/ SetRegStep

SpecReg == InitReg /\ [][NextReg]_vars

\* Register access and the program counter.
NextPc == GetPcStep \/ SetPcStep \/ GetRegStep \/ SetRegStep

SpecPc == InitReg /\ [][NextPc]_vars

\* Return values, after a return of the guest.
NextRet == GetRetvalStep \/ SetRetvalStep

SpecRet == InitRet /\ [][NextRet]_vars

\* Arguments, at a call of the guest.
NextArg == GetArgStep \/ SetArgStep \/ GetArgsStep

SpecArg == InitArg /\ [][NextArg]_vars

\* Arguments and return values read at a call of the guest.
NextLookup == GetArgStep \/ GetRetvalStep

SpecLookup == InitArg /\ [][NextLookup]_vars

TypeOK ==
  /\ arch \in Archs
  /\ regs \in [RegFile(arch) -> Words(arch)]
  /\ pc \in Words(arch)
  /\ nops \in 0..MaxOps

(***************************************************************************)
(* Vocabulary of the properties.                                           *)
(***************************************************************************)
\* The index the register table gives a key.
RegIdx(a, key) == Registers[a][key]

\* s spells the name t up to the case of its letters.
CaseVariant(s, t) ==
  /\ Len(s) = Len(t)
  /\ \A k \in 1..Len(s) : UpperChar(s[k]) = UpperChar(t[k])

\* s spells, up to case, a name of the variant's regnames list.
SpellsTableName(a, s) ==
  \E i \in 1..Len(Regnames(a)) : CaseVariant(s, Regnames(a)[i])

\* The call changed no register.
RegsUntouched == regs = last.regs0

\* The register a convention returns values in, as the guest left it
\* before the last call.
RetRegBefore(conv) == last.regs0[RegIdx(arch, Join(Upper(RegRetval[arch][conv])))]

\* The two's-complement reading of a word of the variant.
Signed(x) == IF x >= SignBit(arch) THEN x - WordMod(arch) ELSE x

(***************************************************************************)
(* C1.  For every variant and every register name of its table,            *)
(* set_register(cpu, name, v) followed immediately by                      *)
(* get_register(cpu, name) returns v, for every word v (all-zeros and      *)
(* all-ones included).                                                     *)
(***************************************************************************)
C1_SetThenGet ==
  /\ prev.op = "set_reg"
  /\ last.op = "get_reg"
  /\ prev.reg = last.reg
  /\ last.reg.kind = "name"
  /\ Join(last.reg.name) \in DOMAIN Registers[arch]
  /\ prev.val \in Words(arch)

\* C1 as claimed: the value read back is the value written, for every name.
C1_RoundTripEveryName ==
  C1_SetThenGet =>
    /\ prev.err = "none"
    /\ last.err = "none"
    /\ last.res = prev.val

\* C1 as amended: the value read back is the value written for every name
\* but AArch64's SP (index 32), whose read answers 0 whatever was written.
C1_RoundTripButAarch64Sp ==
  C1_SetThenGet =>
    /\ prev.err = "none"
    /\ last.err = "none"
    /\ last.res = IF arch = "aarch64" /\ Join(last.reg.name) = "SP"
                    THEN 0 ELSE prev.val

\* All-ones written to AArch64's LR and read back.
C1_Witness ==
  /\ C1_SetThenGet
  /\ arch = "aarch64"
  /\ last.reg.name = << "L","R" >>
  /\ prev.val = AllOnes(arch)
  /\ last.res = AllOnes(arch)

(***************************************************************************)
(* C2.  On MIPS32 and MIPS64, get_return_value(cpu, "syscall") returns     *)
(* the negation of the signed-converted V0 whenever A3 is nonzero, and the *)
(* signed-converted V0 unchanged when A3 is zero.                          *)
(***************************************************************************)
C2_MipsSyscallSignFlip ==
  (arch \in MipsFamily /\ last.op = "get_retval" /\ last.conv = "syscall") =>
    /\ last.err = "none"
    /\ last.res = IF last.regs0[RegIdx(arch, "A3")] # 0
                    THEN -Signed(last.regs0[RegIdx(arch, "V0")])
                    ELSE Signed(last.regs0[RegIdx(arch, "V0")])

(***************************************************************************)
(* C3.  On every variant, MIPS included, get_return_value(cpu, "syscall")  *)
(* reads the return register as a two's-complement signed number: a raw    *)
(* word with the top bit set, with no failure flag set, is returned as a   *)
(* negative number.                                                        *)
(***************************************************************************)
C3_SyscallRetvalSigned ==
  ( /\ last.op = "get_retval"
    /\ last.conv = "syscall"
    /\ RetRegBefore("syscall") >= SignBit(arch)
    /\ arch \in MipsFamily => last.regs0[RegIdx(arch, "A3")] = 0 ) =>
    /\ last.err = "none"
    /\ last.res = Signed(RetRegBefore("syscall"))
    /\ last.res < 0

(***************************************************************************)
(* C4.  On MIPS32 and MIPS64, set_return_value(cpu, value, "syscall",      *)
(* failure) writes A3 to the failure flag (1 or 0) and V0 to               *)
(* abs(signed(value)) when failure is true and signed(value) is negative,  *)
(* and to value unchanged otherwise (as the word that holds it).           *)
(***************************************************************************)
C4_MipsSetRetval ==
  (arch \in MipsFamily /\ last.op = "set_retval" /\ last.conv = "syscall") =>
    LET s == Signed(last.val)
        v == IF last.failure /\ s < 0 THEN -s ELSE last.val
    IN  /\ last.err = "none"
        /\ regs[RegIdx(arch, "A3")] = (IF last.failure THEN 1 ELSE 0)
        /\ regs[RegIdx(arch, "V0")] = v % WordMod(arch)
        /\ \A i \in RegFile(arch) \ { RegIdx(arch, "A3"), RegIdx(arch, "V0") } :
             regs[i] = last.regs0[i]

\* set_retval(cpu, -7, "syscall", failure=True) on MIPS32: A3 = 1, V0 = 7.
C4_Witness ==
  /\ arch = "mips"
  /\ last.op = "set_retval"
  /\ last.conv = "syscall"
  /\ last.val = -7
  /\ last.failure
  /\ regs[7] = 1
  /\ regs[2] = 7

(***************************************************************************)
(* C5.  On every variant, for every negative error code e of the word      *)
(* width, set_return_value(cpu, e, "syscall", failure=true) followed       *)
(* immediately by get_return_value(cpu, "syscall") returns e.              *)
(***************************************************************************)
C5_FailureThenGet ==
  /\ prev.op = "set_retval"
  /\ prev.conv = "syscall"
  /\ prev.failure
  /\ Signed(prev.val) < 0
  /\ last.op = "get_retval"
  /\ last.conv = "syscall"

C5_ErrorCodeRoundTrip ==
  C5_FailureThenGet =>
    /\ prev.err = "none"
    /\ last.err = "none"
    /\ last.res = Signed(prev.val)

\* -7 round-trips on MIPS64 through A3 = 1, V0 = 7.
C5_Witness ==
  /\ C5_FailureThenGet
  /\ arch = "mips64"
  /\ prev.val = -7
  /\ last.regs0[2] = 7
  /\ last.regs0[7] = 1
  /\ last.res = -7

(***************************************************************************)
(* C6.  On every variant, get_argument, set_argument, get_return_value     *)
(* and set_return_value called with a convention the variant does not      *)
(* define fail with UnsupportedConvention and leave the register file      *)
(* unchanged.                                                              *)
(***************************************************************************)
C6_UnknownConventionRejected ==
  ( /\ last.op \in { "get_arg", "set_arg", "get_retval", "set_retval" }
    /\ last.conv \notin DOMAIN CallConventions[arch]
    /\ last.conv \notin DOMAIN RegRetval[arch] ) =>
    /\ last.err = "UnsupportedConvention"
    /\ RegsUntouched

(***************************************************************************)
(* C7.  For every variant and every convention it defines, get_argument    *)
(* and set_argument fail with ArgumentIndexOutOfRange whenever the index   *)
(* is at least the length of the convention's location list, without       *)
(* reading or writing any register or guest memory; get_args therefore     *)
(* fails whenever num exceeds that length.                                 *)
(***************************************************************************)
C7_IndexPastEndRejected ==
  /\ ( /\ last.op \in { "get_arg", "set_arg" }
       /\ last.conv \in DOMAIN CallConventions[arch]
       /\ last.idx >= Len(CallConventions[arch][last.conv]) ) =>
       /\ last.err = "ArgumentIndexOutOfRange"
       /\ last.raw = << >>
       /\ last.mr = << >>
       /\ RegsUntouched
  /\ ( /\ last.op = "get_args"
       /\ last.conv \in DOMAIN CallConventions[arch]
       /\ last.idx > Len(CallConventions[arch][last.conv]) ) =>
       /\ last.err # "none"
       /\ RegsUntouched

\* get_args(cpu, 21, "cdecl") on X86 reads its 20 stack slots, then fails
\* on the index 20.
C7_Witness ==
  /\ arch = "i386"
  /\ last.op = "get_args"
  /\ last.conv = "cdecl"
  /\ last.idx = CdeclSlots + 1
  /\ Len(last.mr) = CdeclSlots
  /\ last.err = "ArgumentIndexOutOfRange"

(***************************************************************************)
(* C8.  Register resolution passes an integer index unchanged to the       *)
(* variant's raw accessor, and rejects a reference that is neither a str   *)
(* nor an int with InvalidRegisterReference, in get_register and in        *)
(* set_register alike; a rejected reference never reaches the raw          *)
(* accessor.                                                               *)
(***************************************************************************)
C8_ReferenceKinds ==
  (last.op \in { "get_reg", "set_reg" }) =>
    /\ last.reg.kind = "index" =>
         /\ Len(last.raw) = 1
         /\ last.raw[1].reg = last.reg
    /\ last.reg.kind = "other" =>
         /\ last.err = "InvalidRegisterReference"
         /\ last.raw = << >>

(***************************************************************************)
(* C9.  Register lookup by name is case-insensitive on every variant:      *)
(* every upper/lower-case spelling of a name of the table resolves, in     *)
(* get_register and set_register, to the index of the canonical spelling;  *)
(* a name that matches no entry after upper-casing fails with              *)
(* UnknownRegister and changes no register.                                *)
(***************************************************************************)
C9_CaseInsensitiveLookup ==
  (last.op \in { "get_reg", "set_reg" } /\ last.reg.kind = "name") =>
    /\ \A i \in 1..Len(Regnames(arch)) :
         CaseVariant(last.reg.name, Regnames(arch)[i]) =>
           /\ last.err = "none"
           /\ Len(last.raw) = 1
           /\ last.raw[1].reg = IndexRef(RegIdx(arch, Join(Upper(Regnames(arch)[i]))))
    /\ ~SpellsTableName(arch, last.reg.name) =>
         /\ last.err = "UnknownRegister"
         /\ last.raw = << >>
         /\ RegsUntouched

\* set_register(cpu, "a3", v) on MIPS32 writes index 7.
C9_Witness ==
  /\ arch = "mips"
  /\ last.op = "set_reg"
  /\ last.reg = NameRef(<< "a","3" >>)
  /\ last.raw = << [rw |-> "w", reg |-> IndexRef(7)] >>
  /\ regs[7] = AllOnes(arch)

(***************************************************************************)
(* C10.  set_argument on an argument position whose location is a stack    *)
(* slot fails with UnsupportedOperation, and with no other error, and      *)
(* leaves the register file and guest memory unchanged.                    *)
(***************************************************************************)
C10_StackSlotWriteUnsupported ==
  ( /\ last.op = "set_arg"
    /\ last.conv \in DOMAIN CallConventions[arch]
    /\ last.idx \in 0..(Len(CallConventions[arch][last.conv]) - 1)
    /\ IsStackLoc(CallConventions[arch][last.conv][last.idx + 1]) ) =>
    /\ last.err = "UnsupportedOperation"
    /\ RegsUntouched


(***************************************************************************)
(* C11.  For every argument position whose location is StackSlot(n),       *)
(* get_argument issues exactly one guest-memory read, of word_size_bytes   *)
(* bytes at stack_pointer_value + word_size_bytes * (n + 1), and returns   *)
(* that read's result; on X86 get_argument(cpu, i, "cdecl") reads 4 bytes  *)
(* at ESP + 4 * (i + 1); a failing read surfaces as MemoryReadError and    *)
(* no register is modified.                                                *)
(***************************************************************************)
\* The last call was get_argument on a position of a defined convention
\* whose location is a stack slot.
C11_StackArgRead ==
  /\ last.op = "get_arg"
  /\ last.conv \in DOMAIN CallConventions[arch]
  /\ last.idx \in 0..(Len(CallConventions[arch][last.conv]) - 1)
  /\ IsStackLoc(CallConventions[arch][last.conv][last.idx + 1])

C12_NoPcIndex == arch \in { "aarch64", "mips", "mips64", "i386", "x86_64" }

C12_PcAccess ==
  /\ (C12_NoPcIndex /\ last.op = "set_pc") =>
       /\ last.err = "none"
       /\ pc = last.val
       /\ RegsUntouched
       /\ last.raw = << >>
  /\ (C12_NoPcIndex /\ last.op = "get_pc") =>
       /\ last.err = "none"
       /\ last.res = last.pc0
       /\ pc = last.pc0
       /\ RegsUntouched
       /\ last.raw = << >>
  /\ (C12_NoPcIndex /\ prev.op = "set_pc" /\ last.op = "get_pc") =>
       last.res = prev.val
  /\ (C12_NoPcIndex /\ last.op \in { "get_reg", "set_reg" }) =>
       pc = last.pc0
  /\ ( /\ arch = "arm"
       /\ prev.op = "set_pc"
       /\ last.op = "get_reg"
       /\ last.reg.kind = "name"
       /\ Join(Upper(last.reg.name)) = "IP" ) =>
       /\ prev.err = "none"
       /\ last.err = "none"
       /\ last.res = prev.val
  /\ \A a \in Archs :
       RegPc(a) = -1 =>
         /\ BaseGetPc(a, World).err = "UnsupportedOperation"
         /\ \A v \in RegValues(a) :
              BaseSetPc(a, World, v).err = "UnsupportedOperation"

\* X86_64: set_pc(cpu, all-ones), then get_pc(cpu) returns all-ones, with
\* every register as the guest left it.
C12_Witness ==
  /\ arch = "x86_64"
  /\ prev.op = "set_pc"
  /\ prev.val = AllOnes(arch)
  /\ last.op = "get_pc"
  /\ last.res = AllOnes(arch)
  /\ regs = [i \in RegFile(arch) |-> 3]

(***************************************************************************)
(* C13.  MIPS64 and MIPS32 run the same return-value logic: for every      *)
(* pair of register contents (V0, A3) and every convention,                *)
(* get_return_value and set_return_value on MIPS64 read and write the      *)
(* same register indices (V0 = 2, A3 = 7) and produce the same results as  *)
(* on MIPS32 apart from word width, while MIPS64's "syscall" convention    *)
(* contains only register locations, all of which exist in the MIPS64      *)
(* register table.                                                         *)
(***************************************************************************)
\* The MIPS32 word that corresponds to a MIPS64 word: the one with the
\* same signed reading, the most negative word for the most negative word.
C13_NarrowWord(x) ==
  IF x = SignBit("mips64") THEN SignBit("mips")
  ELSE IF x > SignBit("mips64") THEN x - WordMod("mips64") + WordMod("mips")
  ELSE x

\* The same for a number that is a word or the negation of a word.
C13_Narrow(x) == IF x < 0 THEN -C13_NarrowWord(-x) ELSE C13_NarrowWord(x)

\* The last call was a return-value call on MIPS64.
C13_Mips64RetvalCall ==
  /\ arch = "mips64"
  /\ last.op \in { "get_retval", "set_retval" }

\* The outcome of the last call when MIPS32 makes it on the corresponding
\* register contents.
C13_OnMips32 ==
  LET w32 == [regs |-> [i \in RegFile("mips") |-> C13_Narrow(last.regs0[i])],
              pc |-> 0, lim |-> 0, raw |-> << >>, mr |-> << >>]
  IN  IF last.op = "get_retval"
        THEN GetRetval("mips", w32, last.conv)
      ELSE SetRetval("mips", w32, C13_Narrow(last.val), last.conv, last.failure)

\* Both tables give V0 index 2 and A3 index 7, and MIPS64's "syscall" list
\* names registers of its table only.
C13_MipsTables ==
  /\ \A a \in MipsFamily :
       /\ RegIdx(a, "V0") = 2
       /\ RegIdx(a, "A3") = 7
  /\ \A k \in 1..Len(CallConventions["mips64"]["syscall"]) :
       /\ ~IsStackLoc(CallConventions["mips64"]["syscall"][k])
       /\ Join(Upper(CallConventions["mips64"]["syscall"][k]))
            \in DOMAIN Registers["mips64"]

C13_Mips64MatchesMips32 ==
  /\ C13_Mips64RetvalCall =>
       /\ C13_OnMips32.err = last.err
       /\ C13_OnMips32.w.raw = last.raw
       /\ \A k \in 1..Len(last.raw) :
            last.raw[k].reg \in { IndexRef(2), IndexRef(7) }
       /\ C13_OnMips32.res = C13_Narrow(last.res)
       /\ \A i \in RegFile("mips64") :
            C13_OnMips32.w.regs[i] = C13_Narrow(regs[i])
  /\ C13_MipsTables

\* MIPS64 get_return_value(cpu, "syscall") with V0 all-ones and A3 = 1
\* reads A3 and V0 and returns minus all-ones.
C13_Witness ==
  /\ C13_Mips64RetvalCall
  /\ last.op = "get_retval"
  /\ last.conv = "syscall"
  /\ last.regs0[7] = 1
  /\ last.regs0[2] = AllOnes(arch)
  /\ last.raw = << [rw |-> "r", reg |-> IndexRef(7)],
                   [rw |-> "r", reg |-> IndexRef(2)] >>
  /\ last.res = -AllOnes(arch)

(***************************************************************************)
(* C14.  In each of the six profiles, every register name referenced by    *)
(* a convention's location list (every location that is not a stack slot)  *)
(* and every name in the return-value mapping is a key of the profile's    *)
(* register table, all keys are stored upper-case, and both the            *)
(* convention map and the return-value map contain the key "default"       *)
(* aliasing one of the profile's real conventions; hence get_argument on   *)
(* a register location and get_return_value on a defined convention never  *)
(* fail with UnknownRegister.                                              *)
(***************************************************************************)
\* The tables of profile a are closed: names referenced are keys, keys are
\* upper-case, "default" aliases a real convention in both maps.
C14_Closed(a) ==
  /\ \A c \in DOMAIN CallConventions[a] :
       \A k \in 1..Len(CallConventions[a][c]) :
         ~IsStackLoc(CallConventions[a][c][k]) =>
           Join(CallConventions[a][c][k]) \in DOMAIN Registers[a]
  /\ \A c \in DOMAIN RegRetval[a] :
       Join(RegRetval[a][c]) \in DOMAIN Registers[a]
  /\ DOMAIN Registers[a] =
       { Join(Upper(Regnames(a)[i])) : i \in 1..Len(Regnames(a)) }
  /\ "default" \in DOMAIN CallConventions[a]
  /\ \E c \in DOMAIN CallConventions[a] \ { "default" } :
       CallConventions[a][c] = CallConventions[a]["default"]
  /\ "default" \in DOMAIN RegRetval[a]
  /\ \E c \in DOMAIN RegRetval[a] \ { "default" } :
       RegRetval[a][c] = RegRetval[a]["default"]

\* The last call was get_argument on a position of a defined convention
\* whose location is a register.
C14_RegisterArgRead ==
  /\ last.op = "get_arg"
  /\ last.conv \in DOMAIN CallConventions[arch]
  /\ last.idx \in 0..(Len(CallConventions[arch][last.conv]) - 1)
  /\ ~IsStackLoc(CallConventions[arch][last.conv][last.idx + 1])

\* The tables of all six profiles are closed.
C14_AllClosed == \A a \in Archs : C14_Closed(a)

C14_ProfilesClosed ==
  /\ C14_AllClosed
  /\ C14_RegisterArgRead =>
       /\ last.err = "none"
       /\ Len(last.raw) = 1
  /\ (last.op = "get_retval" /\ last.conv \in DOMAIN RegRetval[arch]) =>
       /\ last.err = "none"
       /\ Len(last.raw) >= 1

\* MIPS64 get_argument(cpu, 6, "syscall") reads A5, index 9.
C14_Witness ==
  /\ C14_RegisterArgRead
  /\ arch = "mips64"
  /\ last.conv = "syscall"
  /\ last.idx = 6
  /\ last.raw = << [rw |-> "r", reg |-> IndexRef(9)] >>
  /\ last.res = last.regs0[9]
  /\ last.err = "none"

(***************************************************************************)
(* C15.  The AArch64 register table holds 33 distinct register names       *)
(* mapped one-to-one onto the indices 0..32 (no index in 0..32 is unnamed  *)
(* and no name is listed twice), and every name of the form Xn in the      *)
(* table resolves to index n.                                              *)
(***************************************************************************)
\* s is the letter X followed by decimal digits.
C15_IsXn(s) ==
  /\ Len(s) >= 2
  /\ s[1] = "X"
  /\ \A k \in 2..Len(s) : \E d \in 1..10 : Digits[d] = s[k]

\* The number n of a name Xn.
C15_XnNumber(s) == ParseInt(SubSeq(s, 2, Len(s)))

\* The table Aarch64Arch builds is a one-to-one map of 33 names onto 0..32
\* in which every Xn has index n.
C15_TableOneToOne ==
  /\ Cardinality(DOMAIN Registers["aarch64"]) = 33
  /\ { Registers["aarch64"][k] : k \in DOMAIN Registers["aarch64"] } = 0..32
  /\ \A i, j \in 1..Len(Regnames("aarch64")) :
       i # j => Regnames("aarch64")[i] # Regnames("aarch64")[j]
  /\ \A i \in 1..Len(Regnames("aarch64")) :
       C15_IsXn(Regnames("aarch64")[i]) =>
         Registers["aarch64"][Join(Regnames("aarch64")[i])]
           = C15_XnNumber(Regnames("aarch64")[i])

C15_Aarch64TableBijective ==
  /\ C15_TableOneToOne
  /\ ( /\ arch = "aarch64"
       /\ last.op \in { "get_reg", "set_reg" }
       /\ last.reg.kind = "name"
       /\ C15_IsXn(Upper(last.reg.name))
       /\ Join(Upper(last.reg.name)) \in DOMAIN Registers[arch] ) =>
       /\ last.err = "none"
       /\ Len(last.raw) = 1
       /\ last.raw[1].reg = IndexRef(C15_XnNumber(Upper(last.reg.name)))

(***************************************************************************)
(* C16.  get_argument and set_argument never resolve a negative argument   *)
(* index to a location: for every variant, every defined convention and    *)
(* every index < 0 the call fails with ArgumentIndexOutOfRange, and reads  *)
(* or writes no register and no stack slot.  Python's own IndexError, for  *)
(* an index below minus the length of the list, is counted as that         *)
(* failure.                                                                *)
(***************************************************************************)
C16_NegativeIndexRejected ==
  ( /\ last.op \in { "get_arg", "set_arg" }
    /\ last.conv \in DOMAIN CallConventions[arch]
    /\ last.idx < 0 ) =>
    /\ last.err \in { "ArgumentIndexOutOfRange", "IndexError" }
    /\ last.raw = << >>
    /\ last.mr = << >>
    /\ RegsUntouched
=============================================================================
